---- MODULE Spec2Model ----
(***************************************************************************)
(* moxy: record/replay proxy.  Model of the fixture store                  *)
(* (src/src/builder/storage.rs), the dispatcher for unknown routes         *)
(* (src/src/builder/core.rs) and the route table                           *)
(* (src/src/configuration.rs).                                             *)
(*                                                                         *)
(* A Rust String is a sequence of one-character strings, so that            *)
(* ends_with, split, rfind and concatenation are computed, not assumed.    *)
(* Option<T> is a sequence of length at most one.                          *)
(***************************************************************************)
EXTENDS Integers, Sequences, FiniteSets, TLC

\* ------------------------------------------------------------------ bounds
\* Tasks that can be inside a handler at the same time (Spec).
NJobs == 2
\* Calls started in one behaviour: requests, direct saves, recorded messages.
MaxCalls == 2

\* ----------------------------------------------------------------- strings
S_db == <<".", "/", "d", "b">>
S_index == <<"i", "n", "d", "e", "x">>
S_txt == <<".", "t", "x", "t">>
S_json == <<".", "j", "s", "o", "n">>
S_slash_index == <<"/", "i", "n", "d", "e", "x">>
S_ws == <<"_", "w", "s", "/">>

S_wildcard == <<"$", "$", "$">>

\* route patterns
P_end == <<"/", "a", "p", "i", "/", "t", "e", "s", "t", "/", "$", "$", "$">>
P_mid == <<"/", "a", "p", "i", "/", "t", "e", "s", "t", "/", "$", "$", "$", ".", "t", "x", "t">>
P_over == <<"/", "a", "$", "$", "$", "a">>
P_b == <<"/", "b">>
P_a_b == <<"/", "a", "/", "b">>

U_test_abc == <<"/", "a", "p", "i", "/", "t", "e", "s", "t", "/", "a", "b", "c">>
U_test_abc_txt == <<"/", "a", "p", "i", "/", "t", "e", "s", "t", "/", "a", "b", "c", ".", "t", "x", "t">>
U_b == <<"/", "b">>
U_a_b == <<"/", "a", "/", "b">>
U_aba == <<"/", "a", "b", "a">>
U_x_literal == <<"/", "x", "/", "a", "$", "$", "$", "a">>
U_micmine == <<"/", "a", "p", "i", "/", "s", "o", "m", "e", "-", "s", "e", "r", "v", "i", "c", "e", "/", "m", "i", "c", "m", "i", "n", "e">>
U_root == <<"/">>
U_index_html == <<"/", "i", "n", "d", "e", "x", ".", "h", "t", "m", "l">>
U_a_json == <<"/", "a", ".", "j", "s", "o", "n">>
U_ajson == <<"/", "a", "j", "s", "o", "n">>
U_a == <<"/", "a">>
U_a_txt == <<"/", "a", ".", "t", "x", "t">>
U_a_slash == <<"/", "a", "/">>
U_a_index == <<"/", "a", "/", "i", "n", "d", "e", "x">>
U_a_txt_b == <<"/", "a", ".", "t", "x", "t", "/", "b">>
U_results == <<"/", "a", "p", "i", "/", "s", "v", "c", "/", "r", "e", "s", "u", "l", "t", "s">>
U_detail == <<"/", "a", "p", "i", "/", "s", "v", "c", "/", "r", "e", "s", "u", "l", "t", "s", "/", "d", "e", "t", "a", "i", "l">>

\* folder paths
F_user_x == <<".", "/", "d", "b", "/", "a", "p", "i", "/", "s", "v", "c", "/", "u", "s", "e", "r", "/", "x">>
F_db_a == <<".", "/", "d", "b", "/", "a">>
F_double == <<"a", "/", "/", "b">>
F_rooted == <<"/", "a", "/">>

CT_json == <<"a", "p", "p", "l", "i", "c", "a", "t", "i", "o", "n", "/", "j", "s", "o", "n">>
CT_json_utf8 == <<"a", "p", "p", "l", "i", "c", "a", "t", "i", "o", "n", "/", "j", "s", "o", "n", ";", "c", "h", "a", "r", "s", "e", "t", "=", "u", "t", "f", "-", "8">>
CT_unknown == <<"a", "p", "p", "l", "i", "c", "a", "t", "i", "o", "n", "/", "x", "-", "u", "n", "k", "n", "o", "w", "n">>
CT_bogus == <<"b", "o", "g", "u", "s">>

\* Option<T>
None == <<>>
Some(x) == <<x>>

\* str::ends_with, str::starts_with, str::contains(char)
ends_with(s, suf) ==
    /\ Len(suf) <= Len(s)
    /\ SubSeq(s, Len(s) - Len(suf) + 1, Len(s)) = suf

starts_with(s, pre) ==
    /\ Len(pre) <= Len(s)
    /\ SubSeq(s, 1, Len(pre)) = pre

contains(s, c) == \E i \in 1..Len(s) : s[i] = c

\* str::split(char): the pieces between the separators, empty pieces kept.
RECURSIVE split(_, _)
split(s, c) ==
    IF ~contains(s, c)
    THEN <<s>>
    ELSE LET i == CHOOSE k \in 1..Len(s) :
                      s[k] = c /\ \A m \in 1..(k - 1) : s[m] # c
         IN <<SubSeq(s, 1, i - 1)>> \o split(SubSeq(s, i + 1, Len(s)), c)

\* str::rfind(char): 0-based byte index of the last occurrence.
rfind(s, c) ==
    IF contains(s, c)
    THEN Some((CHOOSE k \in 1..Len(s) :
                  s[k] = c /\ \A m \in (k + 1)..Len(s) : s[m] # c) - 1)
    ELSE None

\* ------------------------------------------------ storage.rs: pure functions
\* mime::Mime::from_str accepts type/subtype; the media types of the model.
mime_parse_ok(content_type) == content_type \in {CT_json, CT_unknown}

\* mime_guess::get_mime_extensions_str: the extensions of a media type.
get_mime_extensions_str(content_type) ==
    IF content_type = CT_json
    THEN Some(<< <<"j", "s", "o", "n">>, <<"m", "a", "p">> >>)
    ELSE None

\* A conversion that does not cut the parameters of the media type.
get_extension_KeepParams(content_type) ==
    IF content_type = None
    THEN None
    ELSE IF mime_parse_ok(content_type[1])
              /\ get_mime_extensions_str(content_type[1]) # None
    THEN Some(Head(get_mime_extensions_str(content_type[1])[1]))
    ELSE None

\* convert content_type to filetype; the argument is headers.get("content-type")
get_extension(content_type) ==
    IF content_type = None
    THEN None
    ELSE LET ct == IF contains(content_type[1], ";")
                   THEN Head(split(content_type[1], ";"))
                   ELSE content_type[1]
         IN IF mime_parse_ok(ct) /\ get_mime_extensions_str(ct) # None
            THEN LET exts == get_mime_extensions_str(ct)[1]
                 IN IF exts = <<>> THEN None ELSE Some(Head(exts))
            ELSE None

\* A derivation that forgets the default extension.
get_save_path_NoSuffix(uri, headers) ==
    LET path0 == S_db \o uri
    IN IF ends_with(path0, <<"/">>) THEN path0 \o S_index ELSE path0

\* Will generate a file location based on a uri; headers is the optional
\* content-type value of the header map.
get_save_path(uri, headers) ==
    LET file_suffix == IF ends_with(uri, S_txt) \/ ends_with(uri, S_json)
                       THEN Some(<<>>)
                       ELSE get_extension(headers)
        path0 == S_db \o uri
        path1 == IF ends_with(path0, <<"/">>) THEN path0 \o S_index ELSE path0
    IN IF file_suffix # None
       THEN IF ~ends_with(path1, file_suffix[1])
            THEN path1 \o <<".">> \o file_suffix[1]
            ELSE path1
       ELSE path1 \o S_txt

get_folders(path) ==
    IF rfind(path, "/") # None
    THEN SubSeq(path, 1, rfind(path, "/")[1])
    ELSE path

\* The first i pieces of lft joined by "/".
RECURSIVE join_take(_, _)
join_take(lft, i) ==
    IF i = 0 THEN <<>>
    ELSE IF i = 1 THEN lft[1]
    ELSE join_take(lft, i - 1) \o <<"/">> \o lft[i]

\* An enumeration that leaves out the first entry.
get_folders_to_check_SkipFirst(folders) ==
    LET lft == split(folders, "/")
    IN [i \in 1..(Len(lft) - 1) |-> join_take(lft, i + 1)]

get_folders_to_check(folders) ==
    LET lft == split(folders, "/")
    IN [i \in 1..Len(lft) |-> join_take(lft, i)]

\* ----------------------------------------------------- configuration.rs
\* Configuration::get_route: index of the first route with this path and
\* method, 0 for None.
Configuration_get_route(rs, path, method) ==
    IF \E i \in 1..Len(rs) : rs[i].path = path /\ rs[i].method = method
    THEN CHOOSE i \in 1..Len(rs) :
             /\ rs[i].path = path /\ rs[i].method = method
             /\ \A k \in 1..(i - 1) : ~(rs[k].path = path /\ rs[k].method = method)
    ELSE 0

\* Configuration::get_route_by_resource_mut: index of the first route with
\* this resource and method, 0 for None.
Configuration_get_route_by_resource_mut(rs, resource, method) ==
    IF \E i \in 1..Len(rs) : rs[i].resource = resource /\ rs[i].method = method
    THEN CHOOSE i \in 1..Len(rs) :
             /\ rs[i].resource = resource /\ rs[i].method = method
             /\ \A k \in 1..(i - 1) :
                    ~(rs[k].resource = resource /\ rs[k].method = method)
    ELSE 0

\* str::find(&str): 0-based index of the first occurrence
str_find(s, pat) ==
    IF \E i \in 0..(Len(s) - Len(pat)) : SubSeq(s, i + 1, i + Len(pat)) = pat
    THEN Some(CHOOSE i \in 0..(Len(s) - Len(pat)) :
                  /\ SubSeq(s, i + 1, i + Len(pat)) = pat
                  /\ \A k \in 0..(i - 1) : SubSeq(s, k + 1, k + Len(pat)) # pat)
    ELSE None

\* &s[a..b] panics unless a <= b <= s.len()
slice_ok(s, a, b) == a <= b /\ b <= Len(s)

slice(s, a, b) == SubSeq(s, a + 1, b)

\* what one turn of the loop of get_route comes to
Miss == [hit |-> FALSE, param |-> None, panic |-> FALSE]

Hit(param) == [hit |-> TRUE, param |-> param, panic |-> FALSE]

Panic == [hit |-> FALSE, param |-> None, panic |-> TRUE]

\* A test for equality of path and pattern.
static_match_Equal(path, pattern) == path = pattern

\* if path.ends_with(&i.path)
static_match(path, pattern) == ends_with(path, pattern)

\* The body of the loop of get_route for a route of the request's method:
\* the wildcard tests, and after them, when they have not returned, the
\* test of the whole pattern as a suffix.
match_route(r, path) ==
    LET index == str_find(r.path, S_wildcard)
        static == IF static_match(path, r.path) THEN Hit(None) ELSE Miss
    IN IF index # None /\ starts_with(path, slice(r.path, 0, index[1]))
       THEN IF index[1] + 3 # Len(r.path)
            THEN LET match_end == slice(r.path, index[1] + 3, Len(r.path))
                     sd == Len(match_end)
                 IN IF ends_with(path, match_end)
                    THEN IF slice_ok(path, Len(r.path) - 3 - sd, Len(path) - sd)
                         THEN Hit(Some(slice(path, Len(r.path) - 3 - sd,
                                             Len(path) - sd)))
                         ELSE Panic
                    ELSE static
            ELSE IF slice_ok(path, Len(r.path) - 3, Len(path))
                 THEN Hit(Some(slice(path, Len(r.path) - 3, Len(path))))
                 ELSE Panic
       ELSE static

\* if i.method.eq(&method)
method_eq(a, b) == a = b

\* for i in routes.iter() { ... } (None, None): route is the index of the
\* route returned (0 for None), param the captured segment.
RECURSIVE get_route_from(_, _, _, _)
get_route_from(rs, i, path, method) ==
    IF i > Len(rs)
    THEN [route |-> 0, param |-> None, panic |-> FALSE]
    ELSE IF method_eq(rs[i].method, method)
    THEN LET m == match_route(rs[i], path)
         IN IF m.panic
            THEN [route |-> 0, param |-> None, panic |-> TRUE]
            ELSE IF m.hit
            THEN [route |-> i, param |-> m.param, panic |-> FALSE]
            ELSE get_route_from(rs, i + 1, path, method)
    ELSE get_route_from(rs, i + 1, path, method)

\* Returns the route and an optional parameter; uri.path() is the uri of
\* the model.
get_route(rs, uri, method) == get_route_from(rs, 1, uri, method)

\* ------------------------------------------------------------ filesystem
\* The filesystem maps a path to a directory or to a plain file with its
\* bytes (0 is the empty content) and its inode; an open handle names the
\* inode, so a write through a handle whose file was unlinked changes nothing.
DirEntry == [kind |-> "dir", bytes |-> 0, ino |-> 0]

FileEntry(bytes, ino) == [kind |-> "file", bytes |-> bytes, ino |-> ino]

\* Path::is_file
is_file(f, p) == p \in DOMAIN f /\ f[p].kind = "file"

is_dir(f, p) == p \in DOMAIN f /\ f[p].kind = "dir"

\* p and every ancestor of p
PathPrefixes(p) ==
    {SubSeq(p, 1, i - 1) : i \in {k \in 1..Len(p) : p[k] = "/"}} \cup {p}

PathParent(p) ==
    IF contains(p, "/") THEN SubSeq(p, 1, rfind(p, "/")[1]) ELSE <<".">>

\* fs::read of a plain file gives its bytes
fs_read(f, p) == IF is_file(f, p) THEN Some(f[p].bytes) ELSE None

\* What fs::read(p).await can come to: Some(bytes) for Ok(bytes), None for
\* Err.  The read of an existing file fails too (no permission to read, an
\* I/O error).
fs_read_results(f, p) == {fs_read(f, p), None}

\* fs::remove_file succeeds on a plain file
remove_file_ok(f, p) == is_file(f, p)

remove_file(f, p) == [q \in DOMAIN f \ {p} |-> f[q]]

\* fs::create_dir_all fails when the path or an ancestor is a plain file
create_dir_all_ok(f, p) == \A a \in PathPrefixes(p) : ~is_file(f, a)

create_dir_all(f, p) ==
    [q \in DOMAIN f \cup PathPrefixes(p) |->
        IF q \in DOMAIN f THEN f[q] ELSE DirEntry]

\* File::create needs the parent directory and fails on a directory; it
\* truncates an existing file and keeps its inode.
file_create_ok(f, p) == is_dir(f, PathParent(p)) /\ ~is_dir(f, p)

file_create(f, p, ino) ==
    [q \in DOMAIN f \cup {p} |->
        IF q = p
        THEN (IF is_file(f, p) THEN FileEntry(0, f[p].ino) ELSE FileEntry(0, ino))
        ELSE f[q]]

\* write_all through the handle of inode ino
write_all(f, ino, bytes) ==
    [q \in DOMAIN f |->
        IF f[q].kind = "file" /\ f[q].ino = ino
        THEN FileEntry(bytes, ino)
        ELSE f[q]]

\* ------------------------------------------------------------------ state
VARIABLES
    routes,      \* Configuration.routes, the in-memory route table
    build_mode,  \* Configuration.build_mode: None, Some("Read"), Some("Write")
    remote,      \* Configuration.remote
    persisted,   \* the routes a reload of ./moxy.json finds
    fs,          \* the filesystem under the working directory
    nextIno,     \* the next unused inode
    lock,        \* the task holding the Mutex<Configuration>, 0 when free
    job,         \* each task's position and locals
    out,         \* what each task's last call returned
    recorded,    \* history: recorded[i] is the body passed to the save that
                 \* appended routes[i]
    calls,       \* history: the calls started, in order (the arguments of
                 \* the direct calls of save, the kind of the others)
    wlog,        \* history: the fixture writes completed by save, in order
    failed,      \* history: some call returned an error or panicked
    eval         \* the call of a function on its own: arguments and result

vars == <<routes, build_mode, remote, persisted, fs, nextIno, lock, job, out,
          recorded, calls, wlog, failed, eval>>

Jobs == 1..NJobs

\* methods of the direct save calls of SpecSave
Methods == {"GET", "POST"}

\* methods of the requests of Spec
RequestMethods == {"GET"}

\* The bytes of the n-th call are n: every call carries a body of its own
\* (0 is the empty content).
NextBody == Len(calls) + 1

\* URIs of the requests of Spec
URIs == {U_a_txt, U_a_txt_b}

\* URIs of the direct save calls of SpecSave
SaveURIs ==
    {U_a, U_b, U_a_txt, U_a_slash, U_a_index, U_a_txt_b, U_results, U_detail}

\* content-type values of the response headers
ContentTypes == {None, Some(CT_json)}

\* paths of the recorded WebSocket sessions
WsPaths == {U_a_txt_b}

\* hyper::HeaderMap: the header names in insertion order, each with its
\* values in insertion order (a multimap).
EmptyHeaders == <<>>

\* two values under one header name
H_two_cookies == << [name |-> "set-cookie", values |-> <<"a=1", "b=2">>] >>

\* header maps of the upstream responses
UpstreamHeaders == {EmptyHeaders, H_two_cookies}

\* headers.get("content-type"): the first value of the name
HeaderMap_get(h, name) ==
    IF \E i \in 1..Len(h) : h[i].name = name
    THEN Some((h[CHOOSE i \in 1..Len(h) : h[i].name = name]).values[1])
    ELSE None

\* HeaderMap::into_iter yields (Option<HeaderName>, value): the name comes
\* with the first value of a name only, the further values of that name
\* come with None.
RECURSIVE HeaderMap_into_iter(_)
HeaderMap_into_iter(h) ==
    IF h = <<>>
    THEN <<>>
    ELSE [i \in 1..Len(h[1].values) |->
             <<IF i = 1 THEN Some(h[1].name) ELSE None, h[1].values[i]>>]
         \o HeaderMap_into_iter(Tail(h))

\* response::Builder::header(key, value) appends the value under the name
HeaderMap_append(h, name, value) ==
    IF \E i \in 1..Len(h) : h[i].name = name
    THEN [i \in 1..Len(h) |->
             IF h[i].name = name
             THEN [h[i] EXCEPT !.values = Append(h[i].values, value)]
             ELSE h[i]]
    ELSE Append(h, [name |-> name, values |-> <<value>>])

\* what the upstream answers: ResourceData { method, headers, code, payload }
Responses(method, body) ==
    [method : {method}, headers : UpstreamHeaders, code : {200, 404},
     payload : {None, Some(body)}]

IdleJob ==
    [pc |-> "idle", kind |-> "none", sess |-> 0, method |-> "GET", uri |-> <<>>,
     body |-> 0, ct |-> None, mode |-> None, remote |-> None, resp |-> None,
     fetched |-> 0, path |-> <<>>, folders |-> <<>>, todo |-> <<>>,
     changes |-> <<>>, prev |-> None, ino |-> 0, found |-> 0]

\* What a call returned: res is "response" (build_response answered), "ok"
\* or "err" (a direct call returned), "panic" (an unwrap panicked); with it,
\* as history of the call: the number of upstream requests sent, whether
\* storage::save was called, and what the upstream answered.
NoOut ==
    [res |-> "none", code |-> 0, body |-> None, headers |-> EmptyHeaders,
     fetched |-> 0, saved |-> FALSE, up |-> None]

\* for (key, value) in headers.into_iter() { if let Some(key) = key {
\* response = response.header(key, value) } }
RECURSIVE copy_headers(_, _)
copy_headers(items, acc) ==
    IF items = <<>>
    THEN acc
    ELSE copy_headers(Tail(items),
                      IF items[1][1] # None
                      THEN HeaderMap_append(acc, items[1][1][1], items[1][2])
                      ELSE acc)

\* Returns a response with headers and a code
get_response(headers, code, body) ==
    [code |-> code, body |-> body,
     headers |-> copy_headers(HeaderMap_into_iter(headers), EmptyHeaders)]

\* Response::builder().status(404).body(Body::empty())
NotFoundResponse == [code |-> 404, body |-> None, headers |-> EmptyHeaders]

\* build_response returns Ok(response)
Returned(jr, response, saved) ==
    [res |-> "response", code |-> response.code, body |-> response.body,
     headers |-> response.headers, fetched |-> jr.fetched, saved |-> saved,
     up |-> jr.resp]

\* no function is called on its own
NoEval == [op |-> "none", done |-> FALSE]

InitStore ==
    /\ routes = <<>>
    /\ persisted = <<>>
    /\ fs = [p \in {<<".">>} |-> DirEntry]
    /\ nextIno = 1
    /\ lock = 0
    /\ job = [j \in Jobs |-> IdleJob]
    /\ out = [j \in Jobs |-> NoOut]
    /\ recorded = <<>>
    /\ calls = <<>>
    /\ wlog = <<>>
    /\ failed = FALSE

\* load_configuration: the settings of ./moxy.json, no route recorded yet
Init ==
    /\ InitStore
    /\ eval = NoEval
    /\ build_mode \in {None, Some("Read"), Some("Write")}
    /\ remote \in {None, Some("http://localhost")}

\* the default configuration
InitSave ==
    /\ InitStore
    /\ eval = NoEval
    /\ build_mode = Some("Write")
    /\ remote = Some("http://localhost")

Settings == <<build_mode, remote>>

\* Tasks are interchangeable: a new call runs on the lowest idle task of J.
FirstIdle(J, j) ==
    /\ j \in J
    /\ job[j].pc = "idle"
    /\ \A k \in J : k < j => job[k].pc # "idle"

History == <<recorded, calls, wlog, failed>>

\* ------------------------------------------------- how a call comes to an end
\* An error ends the call: save returns Err and drops the guard, and
\* build_response and try_join_all(...).await.unwrap() panic, which drops the
\* other message futures of the session.
JobsAfterError(j) ==
    IF job[j].kind = "ws"
    THEN [k \in Jobs |->
             IF job[k].kind = "ws" /\ job[k].sess = job[j].sess
             THEN IdleJob ELSE job[k]]
    ELSE [job EXCEPT ![j] = IdleJob]

OutAfterError(j) ==
    [k \in Jobs |->
        IF k = j \/ (job[j].kind = "ws" /\ job[k].kind = "ws"
                     /\ job[k].sess = job[j].sess)
        THEN [NoOut EXCEPT !.res = IF job[j].kind = "save" THEN "err" ELSE "panic",
                           !.fetched = job[k].fetched,
                           !.saved = job[k].kind = "http",
                           !.up = job[k].resp]
        ELSE out[k]]

\* A guard whose drop does not release the mutex.
Unlocked_Never(j) == lock

\* the MutexGuard of task j is dropped
Unlocked(j) == IF lock = j THEN 0 ELSE lock

Fail(j) ==
    /\ job' = JobsAfterError(j)
    /\ out' = OutAfterError(j)
    /\ lock' = Unlocked(j)
    /\ failed' = TRUE

\* save returned Ok(()): build_response answers with the upstream response
OutAfterSave(j) ==
    IF job[j].kind = "http"
    THEN [out EXCEPT ![j] =
             Returned(job[j], get_response(job[j].resp[1].headers, job[j].resp[1].code,
                                           job[j].resp[1].payload), TRUE)]
    ELSE [out EXCEPT ![j] = [NoOut EXCEPT !.res = "ok"]]

\* Each action below is one await completing and the code that runs up to
\* the next await (or to the end of the call).

\* ------------------------------------------------ core.rs: build_response
\* The router hands an unmatched request to build_response, which waits for
\* the configuration lock.
BuildRequest(j) ==
    /\ FirstIdle(Jobs, j)
    /\ Len(calls) < MaxCalls
    /\ \E uri \in URIs, method \in RequestMethods :
          /\ job' = [job EXCEPT ![j] = [IdleJob EXCEPT !.pc = "snapshot",
                                                       !.kind = "http",
                                                       !.uri = uri,
                                                       !.method = method,
                                                       !.body = NextBody]]
          /\ calls' = Append(calls, [kind |-> "http", method |-> "GET",
                                     uri |-> <<>>, body |-> 0, ct |-> None])
    /\ out' = [out EXCEPT ![j] = NoOut]
    /\ UNCHANGED <<routes, Settings, eval, persisted, fs, nextIno, lock, recorded,
                   wlog, failed>>

\* A dispatcher that fetches whatever the settings are.
CanFetch_Always(mode, rem) == TRUE

\* let Some(build_mode) = &config.build_mode else { 404 };
\* let Some(remote) = &config.remote else { 404 }
CanFetch(mode, rem) == mode # None /\ rem # None

\* A guard that lives as long as the handler.
LockAfterSnapshot_GuardKept(j) == j

\* let config = config_b.lock().await.to_owned(): the guard is a temporary
\* of the statement and is dropped at its end
LockAfterSnapshot(j) == 0

\* The lock is granted and the configuration cloned; without build mode or
\* remote the answer is 404, otherwise the upstream request is sent.
Snapshot(j) ==
    /\ job[j].pc = "snapshot"
    /\ lock = 0
    /\ lock' = LockAfterSnapshot(j)
    /\ IF CanFetch(build_mode, remote)
       THEN /\ job' = [job EXCEPT ![j].pc = "fetch", ![j].mode = build_mode,
                                  ![j].remote = remote]
            /\ out' = out
       ELSE /\ out' = [out EXCEPT ![j] =
                         Returned(job[j], NotFoundResponse, FALSE)]
            /\ job' = [job EXCEPT ![j] = IdleJob]
    /\ UNCHANGED <<routes, Settings, eval, persisted, fs, nextIno, History>>

\* A persist condition that forgets the status code.
ShouldPersist_Any(resp, mode) == mode = Some("Write")

\* response.code != 404 && build_mode == &BuildMode::Write
ShouldPersist(resp, mode) == resp.code # 404 /\ mode = Some("Write")

\* An answer that is not 404.
NoResponse_BadGateway(jr) ==
    Returned(jr, [NotFoundResponse EXCEPT !.code = 502], FALSE)

\* let Some(response) = response else { 404 }: no response from the endpoint
NoResponse(jr) == Returned(jr, NotFoundResponse, FALSE)

\* request::http::fetch_http(...).await is over: the upstream answered r, or
\* failed (None).  Without a response the answer is 404, without a payload the
\* response is passed on, and a payload is saved first when ShouldPersist.
Fetch(j) ==
    /\ job[j].pc = "fetch"
    /\ \E r \in {None} \cup {Some(x) : x \in Responses(job[j].method, job[j].body)} :
          LET jr == [job[j] EXCEPT !.resp = r, !.fetched = job[j].fetched + 1]
          IN IF r = None
             THEN /\ out' = [out EXCEPT ![j] = NoResponse(jr)]
                  /\ job' = [job EXCEPT ![j] = IdleJob]
             ELSE IF r[1].payload = None
             THEN /\ out' = [out EXCEPT ![j] =
                                Returned(jr, get_response(r[1].headers, r[1].code, None),
                                         FALSE)]
                  /\ job' = [job EXCEPT ![j] = IdleJob]
             ELSE IF ShouldPersist(r[1], jr.mode)
             THEN /\ job' = [job EXCEPT ![j] =
                                [jr EXCEPT !.pc = "lock",
                                           !.method = r[1].method,
                                           !.body = r[1].payload[1],
                                           !.ct = HeaderMap_get(r[1].headers,
                                                                "content-type"),
                                           !.path = get_save_path(jr.uri,
                                               HeaderMap_get(r[1].headers,
                                                             "content-type"))]]
                  /\ out' = out
             ELSE /\ out' = [out EXCEPT ![j] =
                                Returned(jr, get_response(r[1].headers, r[1].code,
                                                          r[1].payload), FALSE)]
                  /\ job' = [job EXCEPT ![j] = IdleJob]
    /\ UNCHANGED <<routes, Settings, eval, persisted, fs, nextIno, lock, History>>

\* -------------------------- storage.rs: check_existing_file, folder_check
\* for (from, to) in resource_changes { if let Some(route) =
\* config.get_route_by_resource_mut(&from, method) { route.resource = to } }
RECURSIVE apply_resource_changes(_, _, _)
apply_resource_changes(rs, changes, method) ==
    IF changes = <<>>
    THEN rs
    ELSE LET i == Configuration_get_route_by_resource_mut(rs, changes[1][1], method)
         IN apply_resource_changes(
                IF i # 0 THEN [rs EXCEPT ![i].resource = changes[1][2]] ELSE rs,
                Tail(changes), method)

\* The loop of check_existing_file over the folders that folder_check
\* answers Ok(None) for (Path::is_file is false): what is left starts with
\* a plain file, or is empty.
RECURSIVE skip_non_files(_, _)
skip_non_files(f, todo) ==
    IF todo = <<>> \/ is_file(f, Head(todo))
    THEN todo
    ELSE skip_non_files(f, Tail(todo))

\* The task after the loop has moved on over todo: at the read of the next
\* plain file, or, check_existing_file having returned, at save_file.
JobAfterFolders(jr, f, todo, changes) ==
    IF skip_non_files(f, todo) = <<>>
    THEN [jr EXCEPT !.pc = "sf_mkdir", !.todo = <<>>, !.changes = changes,
                    !.prev = None, !.ino = 0, !.found = 0]
    ELSE [jr EXCEPT !.pc = "fc_read", !.todo = skip_non_files(f, todo),
                    !.changes = changes, !.prev = None, !.ino = 0,
                    !.found = f[Head(skip_non_files(f, todo))].bytes]

\* save repoints the routes once check_existing_file has returned Ok;
\* save_ws_client_message drops the changes (Ok(_) => {}).
RoutesAfterFolders(rs, jr, f, todo, changes) ==
    IF skip_non_files(f, todo) = <<>> /\ jr.kind # "ws"
    THEN apply_resource_changes(rs, changes, jr.method)
    ELSE rs

\* ------------------------------------------------------- storage.rs: save
\* save called on its own: path = get_save_path(uri, headers), then lock()
CallSave(j) ==
    /\ FirstIdle({1}, j)
    /\ Len(calls) < MaxCalls
    /\ \E uri \in SaveURIs, method \in Methods, body \in {NextBody},
          ct \in ContentTypes :
          /\ job' = [job EXCEPT ![j] = [IdleJob EXCEPT !.pc = "lock",
                                          !.kind = "save", !.uri = uri,
                                          !.method = method, !.body = body,
                                          !.ct = ct,
                                          !.path = get_save_path(uri, ct)]]
          /\ calls' = Append(calls, [kind |-> "save", method |-> method,
                                     uri |-> uri, body |-> body, ct |-> ct])
    /\ out' = [out EXCEPT ![j] = NoOut]
    /\ UNCHANGED <<routes, Settings, eval, persisted, fs, nextIno, lock, recorded,
                   wlog, failed>>

\* A lock that never makes anyone wait.
LockFree_Always(l) == TRUE

\* config.lock().await completes when no task holds the mutex
LockFree(l) == l = 0

\* The lock is granted.  if config.get_route(&path, method).is_none() the
\* route is pushed and check_existing_file starts on get_folders(&path);
\* otherwise save is over: Ok(()), and the guard is dropped.
SaveLock(j) ==
    /\ job[j].pc = "lock"
    /\ LockFree(lock)
    /\ IF Configuration_get_route(routes, job[j].path, job[j].method) = 0
       THEN LET rs == Append(routes, [method |-> job[j].method,
                                      path |-> job[j].uri,
                                      resource |-> job[j].path])
                folders == get_folders(job[j].path)
                jr == [job[j] EXCEPT !.folders = folders]
            IN \E checks \in {get_folders_to_check(folders)} :
                  /\ lock' = j
                  /\ recorded' = Append(recorded, job[j].body)
                  /\ job' = [job EXCEPT ![j] = JobAfterFolders(jr, fs, checks, <<>>)]
                  /\ routes' = RoutesAfterFolders(rs, jr, fs, checks, <<>>)
                  /\ out' = out
       ELSE /\ lock' = 0
            /\ out' = OutAfterSave(j)
            /\ job' = [job EXCEPT ![j] = IdleJob]
            /\ UNCHANGED <<routes, recorded>>
    /\ UNCHANGED <<Settings, eval, persisted, fs, nextIno, calls, wlog, failed>>

\* let prefious_file = Some(fs::read(&folder).await): an Err is kept, not
\* returned
FolderRead(j) ==
    /\ job[j].pc = "fc_read"
    /\ \E r \in fs_read_results(fs, Head(job[j].todo)) :
          job' = [job EXCEPT ![j].pc = "fc_remove", ![j].prev = r]
    /\ UNCHANGED <<routes, Settings, eval, persisted, fs, nextIno, lock, out, History>>

\* fs::remove_file(&folder).await?
FolderRemove(j) ==
    /\ job[j].pc = "fc_remove"
    /\ IF remove_file_ok(fs, Head(job[j].todo))
       THEN /\ fs' = remove_file(fs, Head(job[j].todo))
            /\ job' = [job EXCEPT ![j].pc = "fc_mkdir"]
            /\ UNCHANGED <<lock, out, failed>>
       ELSE /\ Fail(j)
            /\ fs' = fs
    /\ UNCHANGED <<routes, Settings, eval, persisted, nextIno, recorded, calls, wlog>>

\* fs::create_dir_all(&folder).await?
FolderMkdir(j) ==
    /\ job[j].pc = "fc_mkdir"
    /\ IF create_dir_all_ok(fs, Head(job[j].todo))
       THEN /\ fs' = create_dir_all(fs, Head(job[j].todo))
            /\ job' = [job EXCEPT ![j].pc = "fc_create"]
            /\ UNCHANGED <<lock, out, failed>>
       ELSE /\ Fail(j)
            /\ fs' = fs
    /\ UNCHANGED <<routes, Settings, eval, persisted, nextIno, recorded, calls, wlog>>

\* let path = folder + "/index"; File::create(&path).await?; with no bytes
\* to write back folder_check returns Ok(Some(path)) and the loop goes on
FolderCreate(j) ==
    LET folder == Head(job[j].todo)
        path == folder \o S_slash_index
        changes == Append(job[j].changes, <<folder, path>>)
        f == file_create(fs, path, nextIno)
    IN /\ job[j].pc = "fc_create"
       /\ IF file_create_ok(fs, path)
          THEN /\ fs' = f
               /\ nextIno' = IF is_file(fs, path) THEN nextIno ELSE nextIno + 1
               /\ IF job[j].prev = None
                  THEN /\ job' = [job EXCEPT ![j] =
                             JobAfterFolders(job[j], f, Tail(job[j].todo), changes)]
                       /\ routes' = RoutesAfterFolders(routes, job[j], f,
                                                       Tail(job[j].todo), changes)
                  ELSE /\ job' = [job EXCEPT ![j].pc = "fc_write",
                                             ![j].ino = f[path].ino]
                       /\ routes' = routes
               /\ UNCHANGED <<lock, out, failed>>
          ELSE /\ Fail(j)
               /\ UNCHANGED <<fs, nextIno, routes>>
       /\ UNCHANGED <<Settings, eval, persisted, recorded, calls, wlog>>

\* index_file.write_all(&prefious_file).await?; return Ok(Some(path)), and
\* the loop goes on
FolderWrite(j) ==
    LET folder == Head(job[j].todo)
        path == folder \o S_slash_index
        changes == Append(job[j].changes, <<folder, path>>)
        f == write_all(fs, job[j].ino, job[j].prev[1])
    IN /\ job[j].pc = "fc_write"
       /\ fs' = f
       /\ job' = [job EXCEPT ![j] =
                     JobAfterFolders(job[j], f, Tail(job[j].todo), changes)]
       /\ routes' = RoutesAfterFolders(routes, job[j], f, Tail(job[j].todo), changes)
       /\ UNCHANGED <<Settings, eval, persisted, nextIno, lock, out, History>>

\* ---------------------------------------------------- storage.rs: save_file
\* fs::create_dir_all(&folder).await?
SaveFileMkdir(j) ==
    /\ job[j].pc = "sf_mkdir"
    /\ IF create_dir_all_ok(fs, job[j].folders)
       THEN /\ fs' = create_dir_all(fs, job[j].folders)
            /\ job' = [job EXCEPT ![j].pc = "sf_create"]
            /\ UNCHANGED <<lock, out, failed>>
       ELSE /\ Fail(j)
            /\ fs' = fs
    /\ UNCHANGED <<routes, Settings, eval, persisted, nextIno, recorded, calls, wlog>>

\* let mut file = File::create(location).await?
SaveFileCreate(j) ==
    LET f == file_create(fs, job[j].path, nextIno)
    IN /\ job[j].pc = "sf_create"
       /\ IF file_create_ok(fs, job[j].path)
          THEN /\ fs' = f
               /\ nextIno' = IF is_file(fs, job[j].path) THEN nextIno ELSE nextIno + 1
               /\ job' = [job EXCEPT ![j].pc = "sf_write",
                                     ![j].ino = f[job[j].path].ino]
               /\ UNCHANGED <<lock, out, failed>>
          ELSE /\ Fail(j)
               /\ UNCHANGED <<fs, nextIno>>
       /\ UNCHANGED <<routes, Settings, eval, persisted, recorded, calls, wlog>>

\* file.write_all(&body).await?; Ok(()).  save goes on to persist the
\* configuration; a message future of save_ws_client_message is complete, and
\* try_join_all returns when the last one is.
SaveFileWrite(j) ==
    LET others == {k \in Jobs \ {j} : job[k].kind = "ws" /\ job[k].sess = job[j].sess}
    IN /\ job[j].pc = "sf_write"
       /\ fs' = write_all(fs, job[j].ino, job[j].body)
       /\ IF job[j].kind # "ws"
          THEN /\ job' = [job EXCEPT ![j].pc = "persist"]
               /\ wlog' = Append(wlog, [method |-> job[j].method,
                                        uri |-> job[j].uri, path |-> job[j].path])
               /\ out' = out
          ELSE IF \A k \in others : job[k].pc = "ws_done"
          THEN /\ job' = [k \in Jobs |-> IF k = j \/ k \in others
                                         THEN IdleJob ELSE job[k]]
               /\ out' = [k \in Jobs |-> IF k = j \/ k \in others
                                         THEN [NoOut EXCEPT !.res = "ok"]
                                         ELSE out[k]]
               /\ wlog' = wlog
          ELSE /\ job' = [job EXCEPT ![j].pc = "ws_done"]
               /\ UNCHANGED <<out, wlog>>
       /\ UNCHANGED <<routes, Settings, eval, persisted, nextIno, lock, recorded,
                      calls, failed>>

\* A failed save_configuration that has written the new table all the same.
save_configuration_err_Written(file, config) == {config}

\* What a reload finds in ./moxy.json after save_configuration returned
\* Err: the routes that were there when File::create failed, none when
\* write_all or flush failed on the truncated file.
save_configuration_err(file, config) == {file, <<>>}

\* configuration::save_configuration(config.to_owned()).await?: on Ok the
\* guard is dropped, save returns Ok(()) and build_response answers with
\* the upstream response; on Err save returns the error.
Persist(j) ==
    /\ job[j].pc = "persist"
    /\ \/ /\ persisted' = routes
          /\ lock' = Unlocked(j)
          /\ out' = OutAfterSave(j)
          /\ job' = [job EXCEPT ![j] = IdleJob]
          /\ failed' = failed
       \/ /\ persisted' \in save_configuration_err(persisted, routes)
          /\ Fail(j)
    /\ UNCHANGED <<routes, Settings, eval, fs, nextIno, recorded, calls, wlog>>

\* --------------------------------------- storage.rs: save_ws_client_message
\* messages of one recorded session
MaxMessages == 2

\* i.to_string() of a one-digit index
Digit(i) == <<"0", "1", "2", "3", "4", "5", "6", "7", "8", "9">>[i + 1]

\* the messages of a session: for each its bytes (every message carries
\* bytes of its own), and whether they parse as JSON
WsContents(n) ==
    {[i \in 1..n |-> [bytes |-> Len(calls) + i, json |-> flags[i]]] :
        flags \in [1..n -> BOOLEAN]}

\* path + "_ws/" + i (+ ".json"), then get_save_path with no header
ws_location(path, i, content) ==
    get_save_path(path \o S_ws \o <<Digit(i)>>
                       \o (IF content.json THEN S_json ELSE <<>>), None)

\* the tasks that carry the n message futures of one session, message i - 1
\* on task js[i]: the n lowest idle tasks of J
JobSeqs(J, n) ==
    {js \in [1..n -> J] :
        /\ \A a, b \in 1..n : a < b => js[a] < js[b]
        /\ \A a \in 1..n : job[js[a]].pc = "idle"
        /\ \A k \in J : job[k].pc = "idle" /\ k < js[n]
                            => \E a \in 1..n : js[a] = k}

\* save_ws_client_message(path, messages): the locations are derived, then
\* one future per message runs check_existing_file and save_file, all of them
\* joined by try_join_all; the configuration lock is not taken.
save_ws_client_message(js, path, cs) ==
    /\ \A i \in DOMAIN js : job[js[i]].pc = "idle"
    /\ Len(calls) + Len(js) <= MaxCalls
    /\ job' = [k \in Jobs |->
                 IF \E i \in DOMAIN js : js[i] = k
                 THEN LET i == CHOOSE i \in DOMAIN js : js[i] = k
                          location == ws_location(path, i - 1, cs[i])
                          jr == [IdleJob EXCEPT !.kind = "ws", !.sess = js[1],
                                    !.uri = path, !.body = cs[i].bytes,
                                    !.path = location,
                                    !.folders = get_folders(location)]
                      IN JobAfterFolders(jr, fs,
                             get_folders_to_check(get_folders(location)), <<>>)
                 ELSE job[k]]
    /\ out' = [k \in Jobs |-> IF \E i \in DOMAIN js : js[i] = k
                              THEN NoOut ELSE out[k]]
    /\ calls' = calls \o [i \in DOMAIN js |->
                            [kind |-> "ws", method |-> "GET", uri |-> <<>>,
                             body |-> 0, ct |-> None]]
    /\ UNCHANGED <<routes, Settings, eval, persisted, fs, nextIno, lock, recorded,
                   wlog, failed>>

WsRecord(J) ==
    \E n \in 1..MaxMessages :
        /\ Len(calls) + n <= MaxCalls
        /\ \E js \in JobSeqs(J, n), path \in WsPaths, cs \in WsContents(n) :
               save_ws_client_message(js, path, cs)

\* ---------------------------------------------------------- specifications
SaveSteps(j) ==
    \/ SaveLock(j)
    \/ FolderRead(j)
    \/ FolderRemove(j)
    \/ FolderMkdir(j)
    \/ FolderCreate(j)
    \/ FolderWrite(j)
    \/ SaveFileMkdir(j)
    \/ SaveFileCreate(j)
    \/ SaveFileWrite(j)
    \/ Persist(j)

\* Requests handled concurrently by build_response, and recorded sessions.
Next ==
    \/ \E j \in Jobs :
          \/ BuildRequest(j)
          \/ Snapshot(j)
          \/ Fetch(j)
          \/ SaveSteps(j)
    \/ WsRecord(Jobs)

Spec == Init /\ [][Next]_vars

\* The steps of task j: the lock is granted, the upstream call or a
\* filesystem operation completes.
Steps(j) ==
    \/ Snapshot(j)
    \/ SaveLock(j)
    \/ Fetch(j)
    \/ FolderRead(j)
    \/ FolderRemove(j)
    \/ FolderMkdir(j)
    \/ FolderCreate(j)
    \/ FolderWrite(j)
    \/ SaveFileMkdir(j)
    \/ SaveFileCreate(j)
    \/ SaveFileWrite(j)
    \/ Persist(j)

\* The runtime polls every task that can go on, the upstream call and the
\* filesystem operations complete, and tokio's Mutex wakes a waiter when
\* the lock is free.  The calls of a behaviour being finitely many, a
\* waiter is not passed over for ever, and weak fairness is enough.
Fairness == \A j \in Jobs : WF_vars(Steps(j))

FairSpec == Spec /\ Fairness

\* save and save_ws_client_message called one after the other by one task.
NextSave ==
    \/ CallSave(1)
    \/ WsRecord({1})
    \/ SaveSteps(1)

SpecSave == InitSave /\ [][NextSave]_vars

\* ------------------------------------- configuration.rs: load_configuration
\* Configuration { routes, host, remote, build_mode }
DefaultConfiguration ==
    [routes |-> <<>>, host |-> Some("127.0.0.1:8080"),
     remote |-> Some("http://localhost"), build_mode |-> Some("Write")]

\* serde_json::from_str fails: unwrap_or_else builds this configuration
ParseErrorConfiguration ==
    [routes |-> <<>>, host |-> Some("127.0.0.1:8080"),
     remote |-> Some("http://localhost"), build_mode |-> None]

\* configurations a valid ./moxy.json holds
Configurations ==
    [routes : {<<>>}, host : {None, Some("127.0.0.1:8080")},
     remote : {None, Some("http://localhost")},
     build_mode : {None, Some("Read"), Some("Write")}]

\* ./moxy.json: absent, unreadable (read_to_string fails with another error
\* than NotFound), malformed (text number n that does not parse), or the
\* JSON of a configuration
ConfigFiles ==
    {[state |-> "absent"], [state |-> "unreadable"]}
        \cup {[state |-> "malformed", text |-> n] : n \in {1, 2}}
        \cup {[state |-> "valid", config |-> c] : c \in Configurations}

\* load_configuration: the configuration returned and the file left behind
load_configuration(file) ==
    IF file.state = "valid"
    THEN [config |-> file.config, file |-> file]
    ELSE IF file.state = "malformed"
    THEN [config |-> ParseErrorConfiguration, file |-> file]
    ELSE IF file.state = "absent"
    THEN [config |-> DefaultConfiguration,
          file |-> [state |-> "valid", config |-> DefaultConfiguration]]
    ELSE [config |-> DefaultConfiguration, file |-> file]

\* ------------------------------------------------ functions on their own
\* route tables handed to get_route
MaxRoutes == 2

Patterns == {P_end, P_mid, P_over, P_b, P_a_b}

Paths == {U_test_abc, U_test_abc_txt, U_a, U_b, U_a_b, U_aba, U_x_literal}

RouteSet ==
    {[method |-> m, path |-> p, resource |-> S_db \o p] :
        m \in Methods, p \in Patterns}

RouteTables == UNION {[1..n -> RouteSet] : n \in 1..MaxRoutes}

\* URIs and content-type values handed to get_save_path
PathURIs ==
    {U_micmine, U_root, U_index_html, U_a, U_a_txt, U_a_json, U_a_slash,
     U_ajson, U_a_txt_b}

HeaderValues ==
    {None, Some(CT_json), Some(CT_json_utf8), Some(CT_unknown), Some(CT_bogus)}

\* folder paths handed to get_folders_to_check
FolderPaths == {F_user_x, F_db_a, F_double, F_rooted, S_db, <<".">>, <<>>}

EvalInputs ==
    {[op |-> "get_route", done |-> FALSE, routes |-> rs, uri |-> u,
      method |-> m] : rs \in RouteTables, u \in Paths, m \in RequestMethods}
    \cup {[op |-> "get_save_path", done |-> FALSE, uri |-> u, headers |-> h] :
             u \in PathURIs, h \in HeaderValues}
    \cup {[op |-> "load_configuration", done |-> FALSE, file |-> f] :
             f \in ConfigFiles}
    \cup {[op |-> "get_folders_to_check", done |-> FALSE, folders |-> f] :
             f \in FolderPaths}

InitEval ==
    /\ InitStore
    /\ build_mode = Some("Write")
    /\ remote = Some("http://localhost")
    /\ eval \in EvalInputs

Rest ==
    <<routes, build_mode, remote, persisted, fs, nextIno, lock, job, out,
      recorded, calls, wlog, failed>>

EvalGetRoute ==
    /\ eval.op = "get_route" /\ ~eval.done
    /\ eval' = [op |-> eval.op, done |-> TRUE, routes |-> eval.routes,
                uri |-> eval.uri, method |-> eval.method,
                res |-> get_route(eval.routes, eval.uri, eval.method)]
    /\ UNCHANGED Rest

EvalGetSavePath ==
    /\ eval.op = "get_save_path" /\ ~eval.done
    /\ eval' = [op |-> eval.op, done |-> TRUE, uri |-> eval.uri,
                headers |-> eval.headers,
                res |-> get_save_path(eval.uri, eval.headers)]
    /\ UNCHANGED Rest

EvalLoadConfiguration ==
    /\ eval.op = "load_configuration" /\ ~eval.done
    /\ eval' = [op |-> eval.op, done |-> TRUE, file |-> eval.file,
                res |-> load_configuration(eval.file)]
    /\ UNCHANGED Rest

EvalGetFoldersToCheck ==
    /\ eval.op = "get_folders_to_check" /\ ~eval.done
    /\ eval' = [op |-> eval.op, done |-> TRUE, folders |-> eval.folders,
                res |-> get_folders_to_check(eval.folders)]
    /\ UNCHANGED Rest

NextEval ==
    \/ EvalGetFoldersToCheck
    \/ EvalGetRoute
    \/ EvalGetSavePath
    \/ EvalLoadConfiguration

SpecEval == InitEval /\ [][NextEval]_vars

\* ------------------------------------------------------------------ claims
\* No call is in progress.
Quiescent == \A j \in Jobs : job[j].pc = "idle"

SameKey(a, b) == a.method = b.method /\ a.uri = b.uri

\* C1: save is idempotent.  The route table never holds two routes for the
\* same (method, URI), and save never writes the fixture of the same
\* (method, URI) twice: a second save of a recorded key is a no-op.
C1_SaveIdempotent ==
    /\ \A i, k \in DOMAIN routes :
          routes[i].method = routes[k].method /\ routes[i].path = routes[k].path
              => i = k
    /\ \A i, k \in DOMAIN wlog : SameKey(wlog[i], wlog[k]) => i = k

\* C2: the two saves of the promotion scenario have been called, in this
\* order, from the empty store, and both have returned.
C2_Scenario ==
    /\ Quiescent
    /\ calls = << [kind |-> "save", method |-> "GET", uri |-> U_results,
                   body |-> 1, ct |-> None],
                  [kind |-> "save", method |-> "GET", uri |-> U_detail,
                   body |-> 2, ct |-> None] >>

HoldsFile(p, bytes) == is_file(fs, p) /\ fs[p].bytes = bytes

C3_RouteUnique ==
    \A i, k \in DOMAIN routes :
        i < k => ~(routes[i].method = routes[k].method
                   /\ routes[i].path = routes[k].path)

\* C4: no silent overwrite.  After successful saves, a route that is the
\* only one recorded for its (method, URI) still finds, in the file its
\* resource names, the bytes that were recorded for it: no save for another
\* route has overwritten them.
C4_NoOverwrite ==
    (Quiescent /\ ~failed) =>
        \A i \in DOMAIN routes :
            (/\ \A k \in DOMAIN routes \ {i} :
                    ~(routes[k].method = routes[i].method
                      /\ routes[k].path = routes[i].path)
             /\ is_file(fs, routes[i].resource))
                => fs[routes[i].resource].bytes = recorded[i]

\* C5: whenever the lock is free, no call is in progress and no call has
\* failed, every route's resource names an existing plain file.
C5_RouteFileCorrespondence ==
    (lock = 0 /\ Quiescent /\ ~failed) =>
        \A i \in DOMAIN routes : is_file(fs, routes[i].resource)

\* The positions of save between the existence check and the end of the
\* configuration persist, and those of a message recording.
FolderPcs == {"fc_read", "fc_remove", "fc_mkdir", "fc_create", "fc_write"}

FilePcs == {"sf_mkdir", "sf_create", "sf_write"}

InSave(j) ==
    /\ job[j].kind \in {"http", "save"}
    /\ job[j].pc \in FolderPcs \cup FilePcs \cup {"persist"}

Recording(j) == job[j].pc \in FolderPcs \cup FilePcs

\* C6: mutual exclusion of save.  A task that is between the existence
\* check and the end of the configuration persist holds the configuration
\* lock at every step of the way, so at most one task is there at a time.
C6_SaveMutualExclusion ==
    /\ \A j \in Jobs : InSave(j) => lock = j
    /\ \A j, k \in Jobs : InSave(j) /\ InSave(k) => j = k

\* C6 witness: one task is writing its fixture inside save while another
\* task's save waits for the lock.
C6_Witness ==
    \E j, k \in Jobs :
        /\ InSave(j) /\ job[j].pc = "sf_write"
        /\ job[k].kind = "http" /\ job[k].pc = "lock"

\* C7: all recordings are serialized.  Two different calls (a save and a
\* message recording, or the recordings of two sessions) are never both
\* inside collision resolution or a fixture write.
C7_RecordingsSerialized ==
    \A j, k \in Jobs :
        (Recording(j) /\ Recording(k))
            => \/ j = k
               \/ job[j].kind = "ws" /\ job[k].kind = "ws"
                  /\ job[j].sess = job[k].sess

\* C8: the configuration lock is not held while a request awaits the
\* upstream response: a task holds the lock only inside save, never while it
\* waits for the snapshot, for the upstream or for save's lock.
C8_NoLockWhileFetching ==
    \A j \in Jobs :
        /\ job[j].pc = "fetch" => lock # j
        /\ lock = j => InSave(j)

\* C8 witness: a request awaits the upstream while another request, having
\* taken the lock, is persisting the configuration at the end of its save.
C8_Witness ==
    \E j, k \in Jobs :
        /\ job[j].pc = "fetch"
        /\ job[k].kind = "http" /\ job[k].pc = "persist" /\ lock = k

\* the upstream answered with a body and a status other than 404 while the
\* build mode is Write
PersistCondition(up) ==
    /\ up # None
    /\ up[1].payload # None
    /\ up[1].code # 404
    /\ build_mode = Some("Write")

\* C9: build_response calls save if and only if the upstream answered with a
\* body, a status other than 404, and the build mode is Write; and a step
\* changes the route table, the fixture store or the persisted configuration
\* only on behalf of such a request (or of a message recording).
C9_SavedIffCondition ==
    \A j \in Jobs :
        /\ (job[j].kind = "http" /\ job[j].pc \notin {"snapshot", "fetch"})
              => PersistCondition(job[j].resp)
        /\ (job[j].pc = "idle" /\ out[j].res \in {"response", "panic"})
              => (out[j].saved <=> PersistCondition(out[j].up))

C9_OnlySavesChange ==
    (routes' # routes \/ fs' # fs \/ persisted' # persisted) =>
        \E j \in Jobs :
            /\ job'[j] # job[j]
            /\ \/ job[j].kind = "ws"
               \/ job[j].kind = "http" /\ PersistCondition(job[j].resp)

C9_PersistCondition == [](C9_SavedIffCondition) /\ [][C9_OnlySavesChange]_vars

\* C9 witness: a request whose upstream answer was 404 with a body has
\* returned without save, next to a recorded route of another request.
C9_Witness ==
    \E j \in Jobs :
        /\ job[j].pc = "idle" /\ out[j].res = "response"
        /\ out[j].up # None /\ out[j].up[1].payload # None
        /\ out[j].up[1].code = 404
        /\ ~out[j].saved
        /\ build_mode = Some("Write")
        /\ Len(routes) = 1

\* C10: with no build mode, or with a build mode and no remote, every
\* request is answered 404 with an empty body, no upstream request is ever
\* sent, and the route table, the persisted configuration and (as long as no
\* session is recorded) the filesystem stay as they were.
C10_NotFoundWithoutUpstream ==
    (build_mode = None \/ remote = None) =>
        /\ \A j \in Jobs :
              /\ job[j].kind = "http" => job[j].pc = "snapshot" /\ job[j].fetched = 0
              /\ out[j].res \notin {"none", "ok"} =>
                    /\ out[j].res = "response"
                    /\ out[j].code = 404 /\ out[j].body = None
                    /\ out[j].fetched = 0 /\ ~out[j].saved
        /\ routes = <<>> /\ persisted = <<>> /\ recorded = <<>> /\ wlog = <<>>
        /\ (\A i \in DOMAIN calls : calls[i].kind = "http")
              => fs = [p \in {<<".">>} |-> DirEntry]

\* C10 witness: a build mode but no remote, and a request answered 404,
\* after a request was answered 404 already.
C10_Witness ==
    /\ build_mode = Some("Write") /\ remote = None
    /\ Len(calls) = 2
    /\ \A j \in Jobs : job[j].pc = "idle"
    /\ \E j \in Jobs : out[j].res = "response" /\ out[j].code = 404

\* C11: when the upstream call produces no response, build_response answers
\* 404 with an empty body without having called save, a request sends at most
\* one upstream request (no retry), and the step that handles the failure
\* leaves the route table, the fixture store and the persisted configuration
\* as they were.
C11_NoResponseState ==
    \A j \in Jobs :
        /\ job[j].fetched <= 1
        /\ out[j].fetched <= 1
        /\ (out[j].res = "response" /\ out[j].fetched = 1 /\ out[j].up = None)
              => /\ out[j].code = 404
                 /\ out[j].body = None
                 /\ ~out[j].saved

C11_NoResponseStep ==
    \A j \in Jobs :
        (job[j].pc = "fetch" /\ job'[j].pc = "idle" /\ out'[j].up = None)
            => /\ routes' = routes
               /\ fs' = fs
               /\ persisted' = persisted
               /\ recorded' = recorded
               /\ wlog' = wlog

C11_FetchFailure == [](C11_NoResponseState) /\ [][C11_NoResponseStep]_vars

\* C11 witness: a request whose upstream call failed has been answered 404
\* after one attempt, next to the recorded route of another request.
C11_Witness ==
    \E j \in Jobs :
        /\ job[j].pc = "idle" /\ out[j].res = "response"
        /\ out[j].fetched = 1 /\ out[j].up = None
        /\ out[j].code = 404
        /\ Len(routes) = 1

\* C12: response pass-through.  Whenever the upstream produced a response,
\* the response returned to the client has the upstream's status code, body
\* bytes and header map, every value of a header name with several values
\* included.
C12_PassThrough ==
    \A j \in Jobs :
        (out[j].res = "response" /\ out[j].up # None)
            => /\ out[j].code = out[j].up[1].code
               /\ out[j].body = out[j].up[1].payload
               /\ out[j].headers = out[j].up[1].headers

\* The rule of the route table for one route: a pattern with a wildcard
\* token matches a path that starts with what is before the token and ends
\* with what is after it; a pattern without one matches a path that ends
\* with it.
HasWildcard(pattern) == str_find(pattern, S_wildcard) # None

Prefix(pattern) == SubSeq(pattern, 1, str_find(pattern, S_wildcard)[1])

Suffix(pattern) ==
    SubSeq(pattern, str_find(pattern, S_wildcard)[1] + 4, Len(pattern))

Matches(pattern, path) ==
    IF HasWildcard(pattern)
    THEN starts_with(path, Prefix(pattern)) /\ ends_with(path, Suffix(pattern))
    ELSE ends_with(path, pattern)

\* get_route has been called on a table of one route of the request's method
OneRouteCall ==
    /\ eval.op = "get_route" /\ eval.done
    /\ Len(eval.routes) = 1
    /\ eval.routes[1].method = eval.method

\* C13: wildcard matching.  For a route whose pattern holds one $$$ token,
\* get_route matches the request path if and only if the path starts with
\* the prefix and ends with the suffix, and on every match the call returns
\* a captured segment c with prefix + c + suffix = path.
C13_WildcardMatch ==
    (OneRouteCall /\ HasWildcard(eval.routes[1].path)) =>
        LET pattern == eval.routes[1].path
        IN /\ ~eval.res.panic
           /\ eval.res.route = 1 <=> Matches(pattern, eval.uri)
           /\ Matches(pattern, eval.uri) =>
                 /\ eval.res.param # None
                 /\ Prefix(pattern) \o eval.res.param[1] \o Suffix(pattern)
                       = eval.uri

\* C14: first match wins.  get_route returns the lowest-indexed route of
\* the request's method that matches the request path, and (None, None)
\* exactly when no route of the request's method matches.
C14_FirstMatchWins ==
    (eval.op = "get_route" /\ eval.done) =>
        LET M == {i \in 1..Len(eval.routes) :
                    /\ eval.routes[i].method = eval.method
                    /\ Matches(eval.routes[i].path, eval.uri)}
        IN /\ ~eval.res.panic
           /\ IF M = {}
              THEN eval.res.route = 0 /\ eval.res.param = None
              ELSE /\ eval.res.route \in M
                   /\ \A i \in M : eval.res.route <= i

\* C15: non-wildcard matching.  A route whose pattern holds no $$$ token
\* matches the request path if and only if the path ends with the whole
\* pattern, and a match on such a route returns no captured segment.
C15_StaticMatch ==
    /\ (OneRouteCall /\ ~HasWildcard(eval.routes[1].path)) =>
          /\ ~eval.res.panic
          /\ eval.res.route = 1 <=> ends_with(eval.uri, eval.routes[1].path)
          /\ eval.res.param = None
    /\ (eval.op = "get_route" /\ eval.done /\ eval.res.route # 0
          /\ ~HasWildcard(eval.routes[eval.res.route].path)) =>
          /\ ends_with(eval.uri, eval.routes[eval.res.route].path)
          /\ eval.res.param = None

\* C15 witness: the pattern /b has matched the longer path /a/b.
C15_Witness ==
    /\ OneRouteCall
    /\ eval.routes[1].path = P_b
    /\ eval.uri = U_a_b
    /\ eval.res.route = 1

S_db_micmine_txt == <<".", "/", "d", "b", "/", "a", "p", "i", "/", "s", "o", "m", "e", "-", "s", "e", "r", "v", "i", "c", "e", "/", "m", "i", "c", "m", "i", "n", "e", ".", "t", "x", "t">>

\* the extension guessed from a content-type value, None when there is no
\* value or nothing can be guessed
Guessed(h) ==
    IF h \in {Some(CT_json), Some(CT_json_utf8)}
    THEN Some(<<"j", "s", "o", "n">>)
    ELSE None

\* The derived path as the rule gives it: ./db + u, index after a final /,
\* then the extension.
DerivedPath(u, h) ==
    LET base == S_db \o u \o (IF ends_with(u, <<"/">>) THEN S_index ELSE <<>>)
    IN IF ends_with(u, S_txt) \/ ends_with(u, S_json)
       THEN base
       ELSE IF Guessed(h) = None
       THEN base \o S_txt
       ELSE IF ends_with(base, Guessed(h)[1])
       THEN base
       ELSE base \o <<".">> \o Guessed(h)[1]

\* C16: path derivation.  get_save_path(u, h) is ./db + u, followed by index
\* when u ends in /, followed by the extension: none when u ends in .txt or
\* .json, .txt without a content-type or a guessed extension, otherwise the
\* guessed extension unless the path ends with it already.  The result
\* starts with ./db; without a content-type /api/some-service/micmine gives
\* ./db/api/some-service/micmine.txt and / gives a path ending in /index.txt.
C16_PathDerivation ==
    (eval.op = "get_save_path" /\ eval.done) =>
        /\ eval.res = DerivedPath(eval.uri, eval.headers)
        /\ starts_with(eval.res, S_db)
        /\ (eval.uri = U_micmine /\ eval.headers = None)
              => eval.res = S_db_micmine_txt
        /\ (eval.uri = U_root /\ eval.headers = None)
              => ends_with(eval.res, S_slash_index \o S_txt)

\* C16 witness: a content-type with a parameter has given the extension of
\* a URI that ends in /.
C16_Witness ==
    /\ eval.op = "get_save_path" /\ eval.done
    /\ eval.uri = U_a_slash
    /\ eval.headers = Some(CT_json_utf8)
    /\ eval.res = S_db \o U_a_slash \o S_index \o S_json

\* C17: when ./moxy.json exists and does not parse, load_configuration
\* returns the default configuration (host 127.0.0.1:8080, remote
\* http://localhost, build mode Write, no routes) and leaves the file as it
\* was.
C17_MalformedFallback ==
    (eval.op = "load_configuration" /\ eval.done
       /\ eval.file.state = "malformed") =>
        /\ eval.res.config = DefaultConfiguration
        /\ eval.res.file = eval.file

\* the renames collision resolution has returned to task j
Renames(j) == {job[j].changes[i] : i \in DOMAIN job[j].changes}

\* C18: repointing after promotion.  When save is about to return after
\* collision resolution promoted ancestor files, it still holds the lock and
\* no route of the table, whatever its method, has a promoted old path as
\* its resource: each such route was repointed to old path + /index.
C18_AllRepointed ==
    \A j \in Jobs :
        (job[j].kind \in {"save", "http"} /\ job[j].pc = "persist") =>
            /\ lock = j
            /\ \A c \in Renames(j) : \A i \in DOMAIN routes :
                  routes[i].resource # c[1]

\* C19: promotion preserves bytes.  A step that completes the promotion of
\* an ancestor p, found as a plain file holding X, leaves p a directory and
\* p/index a plain file holding exactly X, and adds (p, p/index), and
\* nothing else, to the renames; the ancestors passed over before the
\* first plain file leave the filesystem untouched and the renames empty.
C19_PromotionStep ==
    \A j \in Jobs :
        /\ (job[j].pc \in {"fc_create", "fc_write"}
              /\ job'[j].pc \in {"fc_read", "sf_mkdir"}) =>
              LET p == Head(job[j].todo)
              IN /\ p \in DOMAIN fs' /\ fs'[p].kind = "dir"
                 /\ (p \o S_slash_index) \in DOMAIN fs'
                 /\ fs'[p \o S_slash_index].kind = "file"
                 /\ fs'[p \o S_slash_index].bytes = job[j].found
                 /\ job'[j].changes
                       = Append(job[j].changes, <<p, p \o S_slash_index>>)
        /\ (job[j].pc = "lock" /\ job'[j].pc \in {"fc_read", "sf_mkdir"}) =>
              fs' = fs /\ job'[j].changes = <<>>

C19_PromotionPreservesBytes == [][C19_PromotionStep]_vars

\* C20: when the read of the existing file fails during collision
\* resolution, the operation does not go on: the file is not deleted and
\* still holds its bytes.
C20_ReadErrorKeepsFile ==
    \A j \in Jobs :
        (job[j].pc \in {"fc_remove", "fc_mkdir", "fc_create"}
           /\ job[j].prev = None) =>
            HoldsFile(Head(job[j].todo), job[j].found)

\* the entries of a sequence
Range(q) == {q[i] : i \in DOMAIN q}

\* C21: collision resolution inside save goes over every prefix of the
\* derived target path, the target path itself included as the last one,
\* shortest first; so a task that has come to the fixture write does not
\* find its target path to be a directory.
C21_CoversTargetPath ==
    \A j \in Jobs :
        /\ InSave(j) =>
              LET checks == get_folders_to_check(job[j].folders)
              IN /\ Range(checks) = PathPrefixes(job[j].path)
                 /\ checks[Len(checks)] = job[j].path
                 /\ \A a, b \in DOMAIN checks :
                       a < b => Len(checks[a]) < Len(checks[b])
        /\ (job[j].kind \in {"save", "http"} /\ job[j].pc \in FilePcs)
              => ~is_dir(fs, job[j].path)

\* the positions of the separators of a path, and the k-th of them
Slashes(p) == {i \in 1..Len(p) : p[i] = "/"}

KthSlash(p, k) ==
    CHOOSE i \in Slashes(p) : Cardinality({m \in Slashes(p) : m <= i}) = k

\* C22: ancestor enumeration.  For a path of n segments separated by /,
\* get_folders_to_check returns n entries, the k-th being the path up to its
\* k-th separator (the first k segments joined by /), each longer than the
\* one before, the last being the path itself; ./db/api/svc/user/x gives
\* ., ./db, ./db/api, ./db/api/svc, ./db/api/svc/user, ./db/api/svc/user/x.
C22_AncestorEnumeration ==
    (eval.op = "get_folders_to_check" /\ eval.done) =>
        LET p == eval.folders
            n == Cardinality(Slashes(p)) + 1
        IN /\ Len(eval.res) = n
           /\ \A k \in 1..(n - 1) :
                 eval.res[k] = SubSeq(p, 1, KthSlash(p, k) - 1)
           /\ eval.res[n] = p
           /\ \A k \in 1..(n - 1) : Len(eval.res[k]) < Len(eval.res[k + 1])
           /\ p = F_user_x =>
                 eval.res = << <<".">>, S_db, S_db \o <<"/", "a", "p", "i">>,
                               S_db \o <<"/", "a", "p", "i", "/", "s", "v", "c">>,
                               S_db \o <<"/", "a", "p", "i", "/", "s", "v", "c", "/", "u", "s", "e", "r">>,
                               F_user_x >>

\* C22 witness: the six ancestors of ./db/api/svc/user/x have been listed.
C22_Witness ==
    /\ eval.op = "get_folders_to_check" /\ eval.done
    /\ eval.folders = F_user_x
    /\ Len(eval.res) = 6

\* the step in which the save of task j returns an error
SaveFails(j) ==
    /\ InSave(j)
    /\ job'[j].pc = "idle"
    /\ out'[j].res \in {"err", "panic"}

\* C23: no rollback on partial failure.  The step in which save returns an
\* error (from collision resolution, the fixture write or the configuration
\* persist) undoes nothing: the route table, with the route appended by
\* this save as its last entry, and the filesystem stay as they are, and
\* the persisted configuration is not the in-memory table.
C23_FailingStep ==
    \A j \in Jobs :
        SaveFails(j) =>
            /\ failed'
            /\ routes' = routes
            /\ fs' = fs
            /\ Len(routes') >= 1
            /\ routes'[Len(routes')] = [method |-> job[j].method,
                                        path |-> job[j].uri,
                                        resource |-> job[j].path]
            /\ persisted' # routes'

C23_NoRollback == [][C23_FailingStep]_vars

\* C23 witness: the save of a request has failed, its route is in the
\* table and the persisted configuration is behind.
C23_Witness ==
    \E j \in Jobs :
        /\ job[j].pc = "idle" /\ out[j].res = "panic" /\ out[j].saved
        /\ failed
        /\ Len(routes) >= 1
        /\ persisted # routes

\* C24: record-then-lookup round trip.  After successful save calls,
\* get_route for a recorded (method, URI) returns a route whose resource is
\* a file holding exactly the body most recently recorded for that
\* (method, URI).
C24_RoundTrip ==
    (Quiescent /\ ~failed /\ \A i \in DOMAIN calls : calls[i].kind = "save") =>
        \A i \in DOMAIN calls :
            (\A k \in DOMAIN calls : k > i => ~SameKey(calls[k], calls[i])) =>
                LET r == get_route(routes, calls[i].uri, calls[i].method)
                IN /\ ~r.panic
                   /\ r.route # 0
                   /\ HoldsFile(routes[r.route].resource, calls[i].body)

\* C25: lock release and progress.  A task that has left save or the
\* snapshot does not hold the lock; the lock is free again and again; under
\* fair scheduling a task waiting for the lock gets it, and every call
\* comes to its end.
C25_Released ==
    \A j \in Jobs : job[j].pc \in {"idle", "fetch", "lock"} => lock # j

C25_LockProgress ==
    /\ []C25_Released
    /\ []<>(lock = 0)
    /\ \A j \in Jobs : (job[j].pc # "idle") ~> (job[j].pc = "idle")

\* C25 witness: a request waits for the lock of save, which the failed save
\* of another request has released.
C25_Witness ==
    \E j, k \in Jobs :
        /\ job[j].pc = "lock"
        /\ job[k].pc = "idle" /\ out[k].res = "panic"
        /\ lock = 0

====
